---- MODULE Spec2Model ----
(***************************************************************************)
(* State-machine model of the AI support ticket API: the SQLite tickets    *)
(* table (app/db.py), the OpenAI triage helper (app/ai.py), the request    *)
(* models (app/models.py) and the FastAPI handlers (app/main.py).          *)
(***************************************************************************)
EXTENDS Integers, Sequences, FiniteSets, TLC

\* ------------------------------------------------------------------ bounds
MaxTickets == 2          \* rows inserted in one behaviour
MaxClock == 1            \* seconds the wall clock advances
MaxProcs == 2            \* concurrent request threads (ConcSpec)
MaxRequests == 3         \* requests handled in one behaviour (Spec)
MaxConcRequests == 4     \* requests started in one behaviour (ConcSpec)

\* ------------------------------------------------------------ value space
\* Python None / SQL NULL / JSON null.
None == "None"
\* A JSON value of a type sqlite3 cannot bind (a list or an object).
JsonList == "<list>"

StatusValues == {"new", "open", "pending", "resolved", "closed"}
PriorityValues == {"low", "medium", "high"}
CategoryValues == {"billing", "technical", "account", "other"}

AiKeys == {"priority", "category", "summary", "suggested_reply"}
PatchKeys == {"status", "priority", "category", "summary", "suggested_reply"}

\* The empty mapping (an empty dict).
EmptyDict == [k \in {} |-> None]

\* dict.get(key): the value, None for a missing key.
DictGet(d, k) == IF k \in DOMAIN d THEN d[k] ELSE None

\* ------------------------------------------------- provider responses (ai)
\* What one chat.completions.create + json.loads attempt yields: it raised,
\* or json.loads returned a dict ("object") or some other JSON value.
Raised == [kind |-> "raised", obj |-> EmptyDict]
NonObject == [kind |-> "array", obj |-> EmptyDict]
JsonObject(d) == [kind |-> "object", obj |-> d]

Conforming ==
    JsonObject([priority |-> "high", category |-> "billing",
                summary |-> "sum", suggested_reply |-> "rep"])

\* The json_schema request is strict: a response that parses conforms.
StrictResponses == {Raised, Conforming}

\* The json_object request only promises valid JSON.
FallbackResponses ==
    { Raised,
      Conforming,
      JsonObject([priority |-> "urgent"]),
      JsonObject([priority |-> "low", category |-> "other",
                  summary |-> JsonList, suggested_reply |-> "rep"]),
      NonObject }


\* Faulty variant: the credential is checked only after the strict request was sent.
analyze_ticket_KeyCheckedLate(api_key, strict, fallback) ==
    IF ~api_key
    THEN [raised |-> "RuntimeError", requests |-> <<"json_schema">>,
          value |-> Raised]
    ELSE IF strict.kind # "raised"
    THEN [raised |-> "no", requests |-> <<"json_schema">>, value |-> strict]
    ELSE IF fallback.kind # "raised"
    THEN [raised |-> "no", requests |-> <<"json_schema", "json_object">>,
          value |-> fallback]
    ELSE [raised |-> "APIError", requests |-> <<"json_schema", "json_object">>,
          value |-> Raised]

\* Faulty variant: the strict request is retried once before the fallback.
analyze_ticket_RetriesStrict(api_key, strict, fallback) ==
    IF ~api_key
    THEN [raised |-> "RuntimeError", requests |-> << >>, value |-> Raised]
    ELSE IF strict.kind # "raised"
    THEN [raised |-> "no", requests |-> <<"json_schema">>, value |-> strict]
    ELSE IF fallback.kind # "raised"
    THEN [raised |-> "no",
          requests |-> <<"json_schema", "json_schema", "json_object">>,
          value |-> fallback]
    ELSE [raised |-> "APIError",
          requests |-> <<"json_schema", "json_schema", "json_object">>,
          value |-> Raised]

\* ------------------------------------------------------------- ai.py
\* analyze_ticket: the requests issued in order, the exception raised ("no"
\* when it returned) and the value returned.
analyze_ticket(api_key, strict, fallback) ==
    IF ~api_key
    THEN [raised |-> "RuntimeError", requests |-> << >>, value |-> Raised]
    ELSE IF strict.kind # "raised"
    THEN [raised |-> "no", requests |-> <<"json_schema">>, value |-> strict]
    ELSE IF fallback.kind # "raised"
    THEN [raised |-> "no", requests |-> <<"json_schema", "json_object">>,
          value |-> fallback]
    ELSE [raised |-> "APIError", requests |-> <<"json_schema", "json_object">>,
          value |-> Raised]

\* --------------------------------------------------------------- state
VARIABLES
    tickets,      \* the tickets table: rows in rowid order
    seq,          \* sqlite_sequence: the largest id AUTOINCREMENT handed out
    now,          \* datetime('now'), in whole seconds
    api_key,      \* whether OPENAI_API_KEY is set in the process environment
    last,         \* the last request and its response
    pc,           \* ConcSpec: each request thread's position
    req,          \* ConcSpec: each thread's request and response
    wlock,        \* ConcSpec: the thread holding the database write lock (0: none)
    work,         \* ConcSpec: the lock holder's uncommitted view of the table
    started       \* requests started so far

vars == <<tickets, seq, now, api_key, last, pc, req, wlock, work, started>>
concVars == <<pc, req, wlock, work>>

Procs == 1..MaxProcs

\* Valid TicketCreate bodies.
TicketCreateInputs ==
    { [source |-> s, customer_name |-> None, customer_email |-> None,
       subject |-> "subj", body |-> "body"] : s \in {"web", "zapier"} }

NoRequest ==
    [op |-> "none", code |-> 0, body |-> << >>, ticket_id |-> 0,
     patch |-> EmptyDict, status |-> None, limit |-> 0, offset |-> 0,
     ticket |-> [source |-> None, customer_name |-> None,
                 customer_email |-> None, subject |-> None, body |-> None],
     raised |-> "no", requests |-> << >>, value |-> Raised,
     strict |-> Raised, fallback |-> Raised]

\* ------------------------------------------------------------- db.py
\* INSERT INTO tickets: the row the table's defaults and AUTOINCREMENT build.
InsertRow(id, ticket, ai_data, ts) ==
    [id |-> id,
     source |-> ticket.source,
     customer_name |-> ticket.customer_name,
     customer_email |-> ticket.customer_email,
     subject |-> ticket.subject,
     body |-> ticket.body,
     status |-> "new",
     priority |-> DictGet(ai_data, "priority"),
     category |-> DictGet(ai_data, "category"),
     summary |-> DictGet(ai_data, "summary"),
     suggested_reply |-> DictGet(ai_data, "suggested_reply"),
     created_at |-> ts,
     updated_at |-> ts]

\* AUTOINCREMENT: one more than the largest id ever used.
NextId(s) == s + 1

\* ------------------------------------------------------- db.py (update)
\* UPDATE tickets SET <data> WHERE id = ?: the matched row with data applied.
SetColumns(row, data) ==
    [c \in DOMAIN row |-> IF c \in DOMAIN data THEN data[c] ELSE row[c]]


\* Faulty variant: the trigger is missing, updated_at keeps its value.
tickets_updated_at_Missing(row, ts) == row

\* Trigger tickets_updated_at, AFTER UPDATE: updated_at = datetime('now').
tickets_updated_at(row, ts) == [row EXCEPT !.updated_at = ts]


\* Faulty variant: the status column is declared without NOT NULL.
NotNullOk_Nullable(row) == TRUE

\* status TEXT NOT NULL (the only NOT NULL column a patch can set).
NotNullOk(row) == row.status # None

\* Positions of the rows WHERE id = ?.
Matching(t, ticket_id) == {i \in 1..Len(t) : t[i].id = ticket_id}

\* The UPDATE statement with its trigger: the rows changed (rowcount), whether
\* the statement failed (IntegrityError, nothing applied) and the table after.
UpdateStatement(t, ts, ticket_id, data) ==
    LET hit == Matching(t, ticket_id)
        upd == [i \in hit |-> SetColumns(t[i], data)]
    IN  IF \E i \in hit : ~NotNullOk(upd[i])
        THEN [error |-> TRUE, rowcount |-> 0, tickets |-> t]
        ELSE [error |-> FALSE, rowcount |-> Cardinality(hit),
              tickets |-> [i \in 1..Len(t) |->
                             IF i \in hit THEN tickets_updated_at(upd[i], ts)
                             ELSE t[i]]]

\* SELECT * FROM tickets WHERE id = ? ... fetchone(): the row, if any.
SelectById(t, ticket_id) ==
    IF Matching(t, ticket_id) = {} THEN << >>
    ELSE <<t[CHOOSE i \in Matching(t, ticket_id) : TRUE]>>

\* ------------------------------------------------------------- main.py
\* The except branch of create_ticket: the dict of four None.
NullAiData == JsonObject([k \in AiKeys |-> None])


\* Faulty variant: the except clause catches the missing-credential RuntimeError only.
AiData_CatchesConfigOnly(a) ==
    IF a.raised = "RuntimeError" THEN NullAiData ELSE a.value

\* ai_data after the try/except around analyze_ticket.
AiData(a) == IF a.raised # "no" THEN NullAiData ELSE a.value

\* sqlite3 binds None and str; it raises on a list or a dict.
Bindable(ai_data) == \A k \in AiKeys : DictGet(ai_data, k) # JsonList

\* The INSERT statement: the table and sqlite_sequence after it, and
\* cursor.lastrowid.
InsertStatement(t, s, ts, ticket, ai_data) ==
    [tickets |-> Append(t, InsertRow(NextId(s), ticket, ai_data, ts)),
     seq |-> NextId(s), lastrowid |-> NextId(s)]

\* Whether create_ticket reaches its INSERT: ai_data.get needs a dict and
\* each parameter must bind.
Insertable(ai_data) == ai_data.kind = "object" /\ Bindable(ai_data.obj)

\* The outcome of create_ticket: status code, table and sequence after it.
create_ticket(t, s, ts, ticket, a) ==
    LET ai_data == AiData(a) IN
    IF ~Insertable(ai_data)
    THEN [code |-> 500, tickets |-> t, seq |-> s, body |-> << >>]
    ELSE LET ins == InsertStatement(t, s, ts, ticket, ai_data.obj) IN
         [code |-> 200, tickets |-> ins.tickets, seq |-> ins.seq,
          body |-> SelectById(ins.tickets, ins.lastrowid)]

CreateTicket ==
    /\ Len(tickets) < MaxTickets
    /\ started < MaxRequests
    /\ started' = started + 1
    /\ \E ticket \in TicketCreateInputs, strict \in StrictResponses,
          fallback \in FallbackResponses :
         LET a == analyze_ticket(api_key, strict, fallback)
             r == create_ticket(tickets, seq, now, ticket, a)
         IN /\ tickets' = r.tickets
            /\ seq' = r.seq
            /\ last' = [NoRequest EXCEPT !.op = "create", !.code = r.code,
                           !.body = r.body, !.ticket = ticket,
                           !.raised = a.raised, !.value = a.value,
                           !.requests = a.requests, !.strict = strict,
                           !.fallback = fallback]
    /\ UNCHANGED <<now, api_key, concVars>>

\* ------------------------------------------------------------- models.py
\* TicketUpdate: each field a Literal of its enum, or a str, or None.
FieldValid(k, v) ==
    CASE k = "status" -> v \in StatusValues \cup {None}
      [] k = "priority" -> v \in PriorityValues \cup {None}
      [] k = "category" -> v \in CategoryValues \cup {None}
      [] OTHER -> v # JsonList

\* Pydantic validates the known fields of the body and ignores the others.
TicketUpdateValid(body) ==
    \A k \in DOMAIN body \cap PatchKeys : FieldValid(k, body[k])

\* patch.model_dump(exclude_unset=True): the fields the body set, None included.
model_dump(body) == [k \in DOMAIN body \cap PatchKeys |-> body[k]]

\* PATCH bodies.
PatchInputs ==
    { EmptyDict,
      [note |-> "x"],
      [status |-> "resolved"],
      [status |-> "bogus"],
      [status |-> None],
      [priority |-> "urgent"],
      [priority |-> None],
      [category |-> None, summary |-> None, suggested_reply |-> None],
      [summary |-> "edited"],
      [status |-> "open", category |-> "other"],
      [status |-> None, priority |-> "low"] }


\* Faulty variant: the enum check runs after the UPDATE was committed.
update_ticket_ValidatesLate(t, ts, ticket_id, body) ==
    LET data == model_dump(body)
        u == UpdateStatement(t, ts, ticket_id, data)
    IN  IF DOMAIN data = {}
        THEN [code |-> 400, tickets |-> t, body |-> << >>]
        ELSE IF u.error
        THEN [code |-> 500, tickets |-> t, body |-> << >>]
        ELSE IF u.rowcount = 0
        THEN [code |-> 404, tickets |-> t, body |-> << >>]
        ELSE IF ~TicketUpdateValid(body)
        THEN [code |-> 422, tickets |-> u.tickets, body |-> << >>]
        ELSE [code |-> 200, tickets |-> u.tickets,
              body |-> SelectById(u.tickets, ticket_id)]

\* ---------------------------------------------------- main.py (update)
\* The outcome of update_ticket: status code, response and table after it.
update_ticket(t, ts, ticket_id, body) ==
    LET data == model_dump(body)
        u == UpdateStatement(t, ts, ticket_id, data)
    IN  IF ~TicketUpdateValid(body)
        THEN [code |-> 422, tickets |-> t, body |-> << >>]
        ELSE IF DOMAIN data = {}
        THEN [code |-> 400, tickets |-> t, body |-> << >>]
        ELSE IF u.error
        THEN [code |-> 500, tickets |-> t, body |-> << >>]
        ELSE IF u.rowcount = 0
        THEN [code |-> 404, tickets |-> t, body |-> << >>]
        ELSE [code |-> 200, tickets |-> u.tickets,
              body |-> SelectById(u.tickets, ticket_id)]

UpdateTicket ==
    /\ started < MaxRequests
    /\ started' = started + 1
    /\ \E ticket_id \in 1..(MaxTickets + 1), body \in PatchInputs :
         LET r == update_ticket(tickets, now, ticket_id, body)
         IN /\ tickets' = r.tickets
            /\ last' = [NoRequest EXCEPT !.op = "update", !.code = r.code,
                           !.body = r.body, !.ticket_id = ticket_id,
                           !.patch = body]
    /\ UNCHANGED <<seq, now, api_key, concVars>>

\* ------------------------------------------------------ main.py (list)
MinLimit == 1
MaxLimit == 100

\* WHERE status = ? is added only for a truthy status.
Filtered(t, status) ==
    {i \in 1..Len(t) : status \in {None, ""} \/ t[i].status = status}

\* ORDER BY created_at DESC: any order of the rows that is descending in
\* created_at; SQL leaves the order of rows with equal keys open.
Orderings(t, S) ==
    {f \in [1..Cardinality(S) -> S] :
        /\ \A i, j \in 1..Cardinality(S) : i # j => f[i] # f[j]
        /\ \A i, j \in 1..Cardinality(S) :
             i < j => t[f[i]].created_at >= t[f[j]].created_at}

Min(a, b) == IF a < b THEN a ELSE b

\* LIMIT ? OFFSET ? over an ordering.
Page(t, ord, limit, offset) ==
    [i \in 1..(Min(Len(ord), offset + limit) - Min(Len(ord), offset)) |->
        t[ord[offset + i]]]

ListTickets ==
    /\ started < MaxRequests
    /\ started' = started + 1
    /\ \E status \in {None, "", "new", "resolved"}, limit \in {0, 1, 2},
          offset \in {0, 1} :
         IF limit < MinLimit \/ limit > MaxLimit \/ offset < 0
         THEN last' = [NoRequest EXCEPT !.op = "list", !.code = 422,
                          !.status = status, !.limit = limit,
                          !.offset = offset]
         ELSE \E ord \in Orderings(tickets, Filtered(tickets, status)) :
                last' = [NoRequest EXCEPT !.op = "list", !.code = 200,
                            !.body = Page(tickets, ord, limit, offset),
                            !.status = status, !.limit = limit,
                            !.offset = offset]
    /\ UNCHANGED <<tickets, seq, now, api_key, concVars>>

\* The wall clock passes a second boundary.
Tick ==
    /\ now < MaxClock
    /\ now' = now + 1
    /\ UNCHANGED <<tickets, seq, api_key, last, started, concVars>>

\* ------------------------------------------------------ concurrent requests
\* FastAPI runs each handler in a worker thread, each on a connection of its
\* own (get_connection). A connection's first write statement opens a
\* transaction and takes the database's write lock, kept until the with
\* block commits or rolls back; a statement that finds the lock taken waits
\* for it, and raises "database is locked" when the wait times out.

NoThread ==
    [op |-> "none", code |-> 0, body |-> << >>, ticket_id |-> 0,
     data |-> EmptyDict, ts |-> 0,
     ticket |-> [source |-> None, customer_name |-> None,
                 customer_email |-> None, subject |-> None, body |-> None],
     ai_data |-> EmptyDict]

Init ==
    /\ tickets = << >>
    /\ seq = 0
    /\ now = 0
    /\ api_key \in BOOLEAN
    /\ last = NoRequest
    /\ pc = [p \in Procs |-> "idle"]
    /\ req = [p \in Procs |-> NoThread]
    /\ wlock = 0
    /\ work = [tickets |-> << >>, seq |-> 0]
    /\ started = 0


\* Faulty variant: the threads share one connection, so no statement waits.
LockFree_SharedConnection(w) == TRUE

\* Whether a connection's write statement gets the write lock.
LockFree(w) == w = 0

\* A request that ends before any statement runs, or on a busy database: the
\* error response is sent and nothing is left of the request.
Answer(p, op, code) ==
    UNCHANGED <<tickets, seq, now, api_key, last, pc, req, wlock, work>>

\* create_ticket up to and including its INSERT.
CreateExecute(p) ==
    /\ pc[p] = "idle"
    /\ started < MaxConcRequests
    /\ Len(tickets) < MaxTickets
    /\ started' = started + 1
    /\ \E ticket \in {t \in TicketCreateInputs : t.source = "web"},
          strict \in StrictResponses, fallback \in {Raised, NonObject} :
         LET ai_data == AiData(analyze_ticket(api_key, strict, fallback))
             ins == InsertStatement(tickets, seq, now, ticket, ai_data.obj)
         IN IF ~Insertable(ai_data) THEN Answer(p, "create", 500)
            ELSE /\ LockFree(wlock)
                 /\ wlock' = p
                 /\ work' = [tickets |-> ins.tickets, seq |-> ins.seq]
                 /\ pc' = [pc EXCEPT ![p] = "written"]
                 /\ req' = [req EXCEPT ![p] =
                              [NoThread EXCEPT !.op = "create",
                                  !.ticket_id = ins.lastrowid, !.ts = now,
                                  !.ticket = ticket, !.ai_data = ai_data.obj]]
                 /\ UNCHANGED <<tickets, seq, now, api_key, last>>

\* PATCH bodies of the concurrent requests.
ConcPatchInputs ==
    { EmptyDict,
      [status |-> "resolved"],
      [status |-> None],
      [priority |-> None],
      [status |-> "open", category |-> "other"] }

\* update_ticket up to and including its UPDATE.
UpdateExecute(p) ==
    /\ pc[p] = "idle"
    /\ started < MaxConcRequests
    /\ started' = started + 1
    /\ \E ticket_id \in 1..(MaxTickets + 1), body \in ConcPatchInputs :
         LET data == model_dump(body)
             u == UpdateStatement(tickets, now, ticket_id, data)
         IN IF ~TicketUpdateValid(body) THEN Answer(p, "update", 422)
            ELSE IF DOMAIN data = {} THEN Answer(p, "update", 400)
            ELSE /\ LockFree(wlock)
                 /\ wlock' = p
                 /\ work' = [tickets |-> u.tickets, seq |-> seq]
                 /\ pc' = [pc EXCEPT ![p] =
                             IF u.error \/ u.rowcount = 0 THEN "raising"
                             ELSE "written"]
                 /\ req' = [req EXCEPT ![p] =
                              [NoThread EXCEPT !.op = "update",
                                  !.code = IF u.error THEN 500
                                           ELSE IF u.rowcount = 0 THEN 404
                                           ELSE 0,
                                  !.ticket_id = ticket_id, !.ts = now,
                                  !.data = data]]
                 /\ UNCHANGED <<tickets, seq, now, api_key, last>>

\* The write statement of a request gives up on a locked database.
Busy(p) ==
    /\ pc[p] = "idle"
    /\ started < MaxConcRequests
    /\ ~LockFree(wlock)
    /\ started' = started + 1
    /\ \E op \in {"create", "update"} : Answer(p, op, 500)

\* The handler's SELECT, inside the transaction of its write.
Select(p) ==
    /\ pc[p] = "written"
    /\ req' = [req EXCEPT ![p].body = SelectById(work.tickets, req[p].ticket_id)]
    /\ pc' = [pc EXCEPT ![p] = "selected"]
    /\ UNCHANGED <<tickets, seq, now, api_key, last, wlock, work, started>>

\* The with block ends normally: commit, and req[p].body is sent with 200.
Commit(p) ==
    /\ pc[p] = "selected"
    /\ tickets' = work.tickets
    /\ seq' = work.seq
    /\ wlock' = 0
    /\ work' = [tickets |-> << >>, seq |-> 0]
    /\ req' = [req EXCEPT ![p] = NoThread]
    /\ pc' = [pc EXCEPT ![p] = "idle"]
    /\ UNCHANGED <<now, api_key, last, started>>

\* The with block ends on an exception: rollback, and req[p].code is sent.
Rollback(p) ==
    /\ pc[p] = "raising"
    /\ wlock' = 0
    /\ work' = [tickets |-> << >>, seq |-> 0]
    /\ req' = [req EXCEPT ![p] = NoThread]
    /\ pc' = [pc EXCEPT ![p] = "idle"]
    /\ UNCHANGED <<tickets, seq, now, api_key, last, started>>

Next == CreateTicket \/ UpdateTicket \/ ListTickets \/ Tick

Spec == Init /\ [][Next]_vars

ConcNext ==
    \/ \E p \in Procs :
         \/ CreateExecute(p)
         \/ UpdateExecute(p)
         \/ Busy(p)
         \/ Select(p)
         \/ Commit(p)
         \/ Rollback(p)
    \/ Tick

ConcSpec == Init /\ [][ConcNext]_vars

\* ------------------------------------------------------------ properties
AiColumns == {"priority", "category", "summary", "suggested_reply"}
AllNull(row) == \A c \in AiColumns : row[c] = None
Ids(t) == {t[i].id : i \in 1..Len(t)}
BothRaised(l) == l.strict.kind = "raised" /\ l.fallback.kind = "raised"

\* The step handles one request of the given kind.
Handled(op) == started' = started + 1 /\ last'.op = op

\* C1: every create_ticket with a valid body, whatever the triage outcome,
\* succeeds, persists exactly one new ticket and returns it with status
\* "new", created_at = updated_at and an id no earlier ticket has.
C1_CreateAlwaysSucceeds ==
    [][Handled("create") =>
        /\ last'.code = 200
        /\ Len(last'.body) = 1
        /\ tickets' = Append(tickets, last'.body[1])
        /\ last'.body[1].status = "new"
        /\ last'.body[1].created_at = last'.body[1].updated_at
        /\ last'.body[1].id \notin Ids(tickets)]_vars

\* C2: when the strict call and the fallback call both fail, create_ticket
\* answers 200 and the stored and returned row has priority, category,
\* summary and suggested_reply all null.
C2_TriageFailureNullFields ==
    (last.op = "create" /\ api_key /\ BothRaised(last)) =>
        /\ last.code = 200
        /\ Len(last.body) = 1
        /\ AllNull(last.body[1])
        /\ Len(tickets) >= 1
        /\ tickets[Len(tickets)] = last.body[1]

C2_Witness ==
    /\ last.op = "create" /\ api_key /\ BothRaised(last)
    /\ last.code = 200 /\ Len(tickets) = 2

\* C3: every stored ticket has status in the status enum, priority null or
\* in the priority enum and category null or in the category enum.
C3_EnumInvariant ==
    \A i \in 1..Len(tickets) :
        /\ tickets[i].status \in StatusValues
        /\ tickets[i].priority \in PriorityValues \cup {None}
        /\ tickets[i].category \in CategoryValues \cup {None}

\* A successful update whose patch sets exactly one field.
SingleFieldUpdate ==
    /\ Handled("update")
    /\ last'.code = 200
    /\ Cardinality(DOMAIN model_dump(last'.patch)) = 1

\* The frame of an update of ticket_id by data: the length and every other row
\* kept, and in the addressed row the patched columns set and every column
\* but those and updated_at kept.
UpdateFrame(t, t2, ticket_id, data) ==
    /\ Len(t2) = Len(t)
    /\ \A i \in 1..Len(t) :
         IF t[i].id = ticket_id
         THEN /\ \A c \in DOMAIN data : t2[i][c] = data[c]
              /\ \A c \in DOMAIN t[i] \ (DOMAIN data \cup {"updated_at"}) :
                   t2[i][c] = t[i][c]
         ELSE t2[i] = t[i]

UpdatedAtOf(t, ticket_id) ==
    {t[i].updated_at : i \in Matching(t, ticket_id)}

\* C4 as stated: a successful single-field update changes only that field and
\* updated_at, and updated_at becomes strictly later than it was.
C4_UpdatedAtStrictlyLater ==
    [][SingleFieldUpdate =>
        /\ UpdateFrame(tickets, tickets', last'.ticket_id,
                       model_dump(last'.patch))
        /\ \A old \in UpdatedAtOf(tickets, last'.ticket_id),
              new \in UpdatedAtOf(tickets', last'.ticket_id) : new > old]_vars

\* C4 amended: a successful single-field update changes only that field and
\* updated_at, every other ticket is unchanged, and updated_at becomes the
\* current second of the store's clock: never earlier than it was, and equal
\* to it when the update falls in the same second.
C4_UpdatedAtRefreshed ==
    [][SingleFieldUpdate =>
        /\ UpdateFrame(tickets, tickets', last'.ticket_id,
                       model_dump(last'.patch))
        /\ last'.body = <<tickets'[CHOOSE i \in Matching(tickets', last'.ticket_id) : TRUE]>>
        /\ \A old \in UpdatedAtOf(tickets, last'.ticket_id),
              new \in UpdatedAtOf(tickets', last'.ticket_id) :
                new = now /\ new >= old]_vars

C4_Witness ==
    /\ last.op = "update" /\ last.code = 200
    /\ last.patch = [status |-> "resolved"]
    /\ last.body[1].status = "resolved"
    /\ last.body[1].updated_at > last.body[1].created_at
    /\ Len(tickets) = 2

\* C5: a rejected update (400 empty patch, 422 invalid enum value, 404 unknown
\* id) leaves the whole table unchanged, every updated_at included.
C5_RejectedUpdateNoEffect ==
    [][(Handled("update") /\ last'.code \in {400, 404, 422}) =>
        (tickets' = tickets /\ seq' = seq)]_vars

C5_Witness ==
    /\ last.op = "update" /\ last.code = 422
    /\ last.ticket_id \in Ids(tickets)
    /\ now > 0 /\ \E i \in 1..Len(tickets) : tickets[i].updated_at < now

\* The tickets most recently created first: by created_at, then by id.
Newer(r1, r2) ==
    \/ r1.created_at > r2.created_at
    \/ r1.created_at = r2.created_at /\ r1.id > r2.id

NewestFirst(t, S) ==
    CHOOSE f \in [1..Cardinality(S) -> S] :
        \A i, j \in 1..Cardinality(S) : i < j => Newer(t[f[i]], t[f[j]])

\* C6: list_tickets returns positions offset .. offset+limit-1 of the tickets
\* matching the filter in an order descending in created_at; with limit = 1,
\* offset = 1, no filter and two tickets or more it returns exactly the second
\* most recently created ticket.
C6_ListPage ==
    (last.op = "list" /\ last.code = 200) =>
        /\ \E ord \in Orderings(tickets, Filtered(tickets, last.status)) :
             last.body = Page(tickets, ord, last.limit, last.offset)
        /\ (last.status \in {None, ""} /\ last.limit = 1 /\ last.offset = 1
              /\ Len(tickets) >= 2) =>
             last.body = <<tickets[NewestFirst(tickets, 1..Len(tickets))[2]]>>

\* The outcome a caller or operator can observe of a create_ticket.
Outcome(code, body, t, s) == <<code, body, t, s>>

BothFailedOutcome(t, s, ts, ticket) ==
    LET r == create_ticket(t, s, ts, ticket,
                           analyze_ticket(TRUE, Raised, Raised))
    IN Outcome(r.code, r.body, r.tickets, r.seq)

Count(q, x) == Cardinality({i \in 1..Len(q) : q[i] = x})

\* C8: with a credential, the strict request is issued first and once, the
\* fallback request iff the strict attempt raised and at most once, the
\* result is the strict response if it parsed and else the fallback
\* response, and when both fail the error propagates with no third request.
C8_StrictThenFallback ==
    (last.op = "create" /\ api_key) =>
        /\ Len(last.requests) >= 1
        /\ last.requests[1] = "json_schema"
        /\ Count(last.requests, "json_schema") = 1
        /\ Count(last.requests, "json_object")
             = (IF last.strict.kind = "raised" THEN 1 ELSE 0)
        /\ Len(last.requests) <= 2
        /\ last.strict.kind # "raised" =>
             (last.raised = "no" /\ last.value = last.strict)
        /\ (last.strict.kind = "raised" /\ last.fallback.kind # "raised") =>
             (last.raised = "no" /\ last.value = last.fallback)
        /\ BothRaised(last) => last.raised = "APIError"

C8_Witness ==
    /\ last.op = "create" /\ api_key
    /\ last.strict.kind = "raised" /\ last.fallback.kind = "object"
    /\ last.requests = <<"json_schema", "json_object">>
    /\ last.code = 200

NullFields(data) == {k \in DOMAIN data : data[k] = None}

\* C10: a patch field set to null counts as provided (no 400); for priority,
\* category, summary and suggested_reply the stored field becomes null; a
\* null status is rejected by the store and the ticket is left unchanged; so
\* no stored ticket ever has a null status.
C10_NullPatchFields ==
    /\ [](\A i \in 1..Len(tickets) : tickets[i].status # None)
    /\ [][(Handled("update") /\ NullFields(model_dump(last'.patch)) # {}) =>
            LET data == model_dump(last'.patch) IN
            /\ last'.code # 400
            /\ last'.ticket_id \in Ids(tickets) =>
                 IF "status" \in NullFields(data)
                 THEN last'.code = 500 /\ tickets' = tickets
                 ELSE /\ last'.code = 200
                      /\ UpdateFrame(tickets, tickets', last'.ticket_id, data)
                      /\ \A c \in NullFields(data) :
                           last'.body[1][c] = None]_vars

C10_Witness ==
    /\ last.op = "update" /\ last.code = 200
    /\ last.patch = [category |-> None, summary |-> None,
                     suggested_reply |-> None]
    /\ \E i \in 1..Len(tickets) :
         /\ tickets[i].id = last.ticket_id
         /\ tickets[i].priority = "high" /\ tickets[i].category = None
         /\ tickets[i].summary = None

\* Thread p's step is its commit.
Commits(p) == pc[p] = "selected" /\ pc'[p] = "idle"

\* C9: under any interleaving of create and update requests each write is
\* applied wholly or not at all: the table changes only by a commit, each
\* commit leaves the table as its whole statement applied to the table
\* committed before it (so the commits are a serial order, last write winning
\* per field, and tickets of other ids are kept), and the record a successful
\* update returns holds every value of its patch.
C9_AtomicSerial ==
    [][/\ (tickets' # tickets \/ seq' # seq) => \E p \in Procs : Commits(p)
       /\ \A p \in Procs : Commits(p) =>
            /\ Len(req[p].body) = 1
            /\ req[p].body[1].id = req[p].ticket_id
            /\ SelectById(tickets', req[p].ticket_id) = req[p].body
            /\ IF req[p].op = "update"
               THEN LET u == UpdateStatement(tickets, req[p].ts,
                                             req[p].ticket_id, req[p].data)
                    IN /\ \A c \in DOMAIN req[p].data :
                            req[p].body[1][c] = req[p].data[c]
                       /\ ~u.error /\ u.rowcount = 1
                       /\ tickets' = u.tickets /\ seq' = seq
                       /\ UpdateFrame(tickets, tickets', req[p].ticket_id,
                                      req[p].data)
               ELSE /\ tickets' = Append(tickets, req[p].body[1])
                    /\ req[p].body[1].id \notin Ids(tickets)
                    /\ seq' = req[p].body[1].id]_vars

C9_Witness ==
    \E p \in Procs :
        /\ pc[p] = "selected"
        /\ req[p].op = "update" /\ req[p].data = [priority |-> None]
        /\ req[p].body[1].status = "resolved"
        /\ req[p].body[1].priority = None
        /\ Len(tickets) = 2
        /\ \E i \in 1..Len(tickets) :
             /\ tickets[i].id = req[p].ticket_id
             /\ tickets[i].status = "resolved"
             /\ tickets[i].priority = "high"

====
